---- MODULE Spec2Model ----
(***************************************************************************)
(* Page replacement simulation (FIFO, LRU, OPT) of June14Brown.py.         *)
(*                                                                         *)
(* Each run of run_algorithm owns one policy instance.  Python lists are   *)
(* sequences, Python indices are kept 0-based where the code computes with *)
(* them (the loop index i, list.index), and an exception raised by a list  *)
(* operation ends the run that made the call.  The runs share no state;    *)
(* they are made one after the other, as main and the unit tests do.       *)
(***************************************************************************)
EXTENDS Integers, Sequences, FiniteSets, TLC

\* ------------------------------------------------------------------------
\* Bounds of the explored inputs
\* ------------------------------------------------------------------------
MaxLen == 4
NumPages == 3
MaxFrames == 3

Pages == 0 .. (NumPages - 1)

RECURSIVE SeqsUpTo(_)
SeqsUpTo(n) ==
    IF n = 0 THEN {<<>>}
    ELSE LET shorter == SeqsUpTo(n - 1)
         IN  shorter \cup {Append(s, p) : s \in {t \in shorter : Len(t) = n - 1}, p \in Pages}

ReferenceStrings == SeqsUpTo(MaxLen)
FrameCounts == (-1) .. MaxFrames

\* The reference strings the program itself runs (main and the unit tests).
GivenString1 == <<7,0,1,2,0,3,0,4,2,3,0,3,2,1,2,0,1,7,0,1>>
GivenString3 == <<4,6,4,8,6,3,6,0,5,9,2,1,0,4,6,3,0,6,8,4>>
GivenString2 == <<8,1,0,7,3,0,3,4,5,3,5,2,0,6,8,4,8,1,5,3>>
GivenStrings == {GivenString1, GivenString2, GivenString3}
GivenRuns == {<<GivenString1, 3>>, <<GivenString3, 4>>}

\* ------------------------------------------------------------------------
\* Python list operations
\* ------------------------------------------------------------------------
\* x in lst
In(x, lst) == \E k \in 1 .. Len(lst) : lst[k] = x

\* lst.index(x): 0-based position of the first occurrence (x is in lst)
Index(lst, x) == (CHOOSE k \in 1 .. Len(lst) : lst[k] = x /\ \A j \in 1 .. (k - 1) : lst[j] # x) - 1

\* lst.remove(x): drops the first occurrence (x is in lst)
Remove(lst, x) ==
    LET k == Index(lst, x) + 1
    IN  SubSeq(lst, 1, k - 1) \o SubSeq(lst, k + 1, Len(lst))

\* lst[n:] with n >= 0
SliceFrom(lst, n) == SubSeq(lst, n + 1, Len(lst))

\* the distinct values of a list
Elems(lst) == {lst[k] : k \in 1 .. Len(lst)}

\* ------------------------------------------------------------------------
\* ReplacementAlgorithm instances
\* ------------------------------------------------------------------------
\* The attributes __init__ sets on a new instance.
NewInstance(page_frame_count) ==
    [page_frame_count |-> page_frame_count,
     page_fault_count |-> 0,
     page_frames      |-> <<>>]

\* What exists when __init__ raised before setting any attribute: nothing
\* is bound to `algorithm'.
NoInstance == [page_frame_count |-> 0, page_fault_count |-> 0, page_frames |-> <<>>]

\* Outcome of a call: the instance as the call left it and the exception it
\* raised ("None" when it returned).
Outcome(self, raised) == [self |-> self, raised |-> raised]

\* FIFOReplacementAlgorithm.insert, variant with a strict comparison
FIFOInsertStrict(self, page_number) ==
    IF ~In(page_number, self.page_frames)
    THEN LET counted == [self EXCEPT !.page_fault_count = @ + 1]
         IN  IF Len(counted.page_frames) > counted.page_frame_count
             THEN IF counted.page_frames = <<>>
                  THEN Outcome(counted, "IndexError")
                  ELSE Outcome([counted EXCEPT !.page_frames = Append(Tail(@), page_number)], "None")
             ELSE Outcome([counted EXCEPT !.page_frames = Append(@, page_number)], "None")
    ELSE Outcome(self, "None")

\* FIFOReplacementAlgorithm.insert, variant that evicts one frame early
FIFOInsertEarly(self, page_number) ==
    IF ~In(page_number, self.page_frames)
    THEN LET counted == [self EXCEPT !.page_fault_count = @ + 1]
         IN  IF Len(counted.page_frames) + 1 >= counted.page_frame_count
             THEN IF counted.page_frames = <<>>
                  THEN Outcome(counted, "IndexError")
                  ELSE Outcome([counted EXCEPT !.page_frames = Append(Tail(@), page_number)], "None")
             ELSE Outcome([counted EXCEPT !.page_frames = Append(@, page_number)], "None")
    ELSE Outcome(self, "None")

\* FIFOReplacementAlgorithm.insert, variant that moves a page that is hit
\* to the end
FIFOInsertReorders(self, page_number) ==
    IF ~In(page_number, self.page_frames)
    THEN LET counted == [self EXCEPT !.page_fault_count = @ + 1]
         IN  IF Len(counted.page_frames) >= counted.page_frame_count
             THEN IF counted.page_frames = <<>>
                  THEN Outcome(counted, "IndexError")
                  ELSE Outcome([counted EXCEPT !.page_frames = Append(Tail(@), page_number)], "None")
             ELSE Outcome([counted EXCEPT !.page_frames = Append(@, page_number)], "None")
    ELSE Outcome([self EXCEPT !.page_frames = Append(Remove(@, page_number), page_number)], "None")

\* FIFOReplacementAlgorithm.insert
FIFOInsert(self, page_number) ==
    IF ~In(page_number, self.page_frames)
    THEN LET counted == [self EXCEPT !.page_fault_count = @ + 1]
         IN  IF Len(counted.page_frames) >= counted.page_frame_count
             THEN \* pop(0) of an empty list raises IndexError
                  IF counted.page_frames = <<>>
                  THEN Outcome(counted, "IndexError")
                  ELSE Outcome([counted EXCEPT !.page_frames = Append(Tail(@), page_number)], "None")
             ELSE Outcome([counted EXCEPT !.page_frames = Append(@, page_number)], "None")
    ELSE Outcome(self, "None")

\* LRUReplacementAlgorithm.insert, variant that counts before testing residency
LRUInsertCountsAll(self, page_number) ==
    LET counted == [self EXCEPT !.page_fault_count = @ + 1]
    IN  IF ~In(page_number, self.page_frames)
        THEN IF Len(counted.page_frames) >= counted.page_frame_count
             THEN IF counted.page_frames = <<>>
                  THEN Outcome(counted, "IndexError")
                  ELSE Outcome([counted EXCEPT !.page_frames = Append(Tail(@), page_number)], "None")
             ELSE Outcome([counted EXCEPT !.page_frames = Append(@, page_number)], "None")
        ELSE Outcome([counted EXCEPT !.page_frames = Append(Remove(@, page_number), page_number)], "None")

\* LRUReplacementAlgorithm.insert, variant that re-appends without removing
LRUInsertNoRemove(self, page_number) ==
    IF ~In(page_number, self.page_frames)
    THEN LET counted == [self EXCEPT !.page_fault_count = @ + 1]
         IN  IF Len(counted.page_frames) >= counted.page_frame_count
             THEN IF counted.page_frames = <<>>
                  THEN Outcome(counted, "IndexError")
                  ELSE Outcome([counted EXCEPT !.page_frames = Append(Tail(@), page_number)], "None")
             ELSE Outcome([counted EXCEPT !.page_frames = Append(@, page_number)], "None")
    ELSE Outcome([self EXCEPT !.page_frames = Append(@, page_number)], "None")

\* LRUReplacementAlgorithm.insert, variant that pops the last frame
LRUInsertPopsNewest(self, page_number) ==
    IF ~In(page_number, self.page_frames)
    THEN LET counted == [self EXCEPT !.page_fault_count = @ + 1]
         IN  IF Len(counted.page_frames) >= counted.page_frame_count
             THEN IF counted.page_frames = <<>>
                  THEN Outcome(counted, "IndexError")
                  ELSE Outcome([counted EXCEPT !.page_frames =
                                   Append(SubSeq(@, 1, Len(@) - 1), page_number)], "None")
             ELSE Outcome([counted EXCEPT !.page_frames = Append(@, page_number)], "None")
    ELSE Outcome([self EXCEPT !.page_frames = Append(Remove(@, page_number), page_number)], "None")

\* LRUReplacementAlgorithm.insert, variant that leaves a page that is hit
\* where it is
LRUInsertNoReorder(self, page_number) ==
    IF ~In(page_number, self.page_frames)
    THEN LET counted == [self EXCEPT !.page_fault_count = @ + 1]
         IN  IF Len(counted.page_frames) >= counted.page_frame_count
             THEN IF counted.page_frames = <<>>
                  THEN Outcome(counted, "IndexError")
                  ELSE Outcome([counted EXCEPT !.page_frames = Append(Tail(@), page_number)], "None")
             ELSE Outcome([counted EXCEPT !.page_frames = Append(@, page_number)], "None")
    ELSE Outcome(self, "None")

\* LRUReplacementAlgorithm.insert, variant without the pop at capacity
LRUInsertNoPop(self, page_number) ==
    IF ~In(page_number, self.page_frames)
    THEN LET counted == [self EXCEPT !.page_fault_count = @ + 1]
         IN  Outcome([counted EXCEPT !.page_frames = Append(@, page_number)], "None")
    ELSE Outcome([self EXCEPT !.page_frames = Append(Remove(@, page_number), page_number)], "None")

\* LRUReplacementAlgorithm.insert
LRUInsert(self, page_number) ==
    IF ~In(page_number, self.page_frames)
    THEN LET counted == [self EXCEPT !.page_fault_count = @ + 1]
         IN  IF Len(counted.page_frames) >= counted.page_frame_count
             THEN IF counted.page_frames = <<>>
                  THEN Outcome(counted, "IndexError")
                  ELSE Outcome([counted EXCEPT !.page_frames = Append(Tail(@), page_number)], "None")
             ELSE Outcome([counted EXCEPT !.page_frames = Append(@, page_number)], "None")
    ELSE Outcome([self EXCEPT !.page_frames = Append(Remove(@, page_number), page_number)], "None")

\* The victim loop without its break: a frame with no future use is noted
\* and the loop goes on
RECURSIVE OPTScanNoBreak(_, _, _, _, _)
OPTScanNoBreak(page_frames, future_references, k, furthest_use, page_to_remove) ==
    IF k > Len(page_frames) THEN page_to_remove
    ELSE LET frame == page_frames[k]
         IN  IF ~In(frame, future_references)
             THEN OPTScanNoBreak(page_frames, future_references, k + 1, furthest_use, frame)
             ELSE LET next_use == Index(future_references, frame)
                  IN  IF next_use > furthest_use
                      THEN OPTScanNoBreak(page_frames, future_references, k + 1, next_use, frame)
                      ELSE OPTScanNoBreak(page_frames, future_references, k + 1, furthest_use, page_to_remove)

\* The victim loop of OPTReplacementAlgorithm.insert, from frame k on
\* (1-based), carrying furthest_use and page_to_remove.
RECURSIVE OPTScan(_, _, _, _, _)
OPTScan(page_frames, future_references, k, furthest_use, page_to_remove) ==
    IF k > Len(page_frames) THEN page_to_remove
    ELSE LET frame == page_frames[k]
         IN  IF ~In(frame, future_references)
             THEN frame
             ELSE LET next_use == Index(future_references, frame)
                  IN  IF next_use > furthest_use
                      THEN OPTScan(page_frames, future_references, k + 1, next_use, frame)
                      ELSE OPTScan(page_frames, future_references, k + 1, furthest_use, page_to_remove)

\* Victim choice that always takes the first frame
OPTVictimFirst(page_frames, future_references) ==
    IF page_frames = <<>> THEN -1 ELSE page_frames[1]

\* Victim choice that always takes the page loaded last
OPTVictimLast(page_frames, future_references) ==
    IF page_frames = <<>> THEN -1 ELSE page_frames[Len(page_frames)]

\* page_to_remove as the loop leaves it (furthest_use = page_to_remove = -1
\* at its start)
OPTVictim(page_frames, future_references) ==
    OPTScan(page_frames, future_references, 1, -1, -1)

\* OPTReplacementAlgorithm.insert, variant that pops the oldest frame
OPTInsertPopsOldest(self, page_number, future_references) ==
    IF ~In(page_number, self.page_frames)
    THEN LET counted == [self EXCEPT !.page_fault_count = @ + 1]
         IN  IF Len(counted.page_frames) >= counted.page_frame_count
             THEN IF counted.page_frames = <<>>
                  THEN Outcome(counted, "IndexError")
                  ELSE Outcome([counted EXCEPT !.page_frames = Append(Tail(@), page_number)], "None")
             ELSE Outcome([counted EXCEPT !.page_frames = Append(@, page_number)], "None")
    ELSE Outcome(self, "None")

\* OPTReplacementAlgorithm.insert, variant that moves a page that is hit
\* to the end
OPTInsertReorders(self, page_number, future_references) ==
    IF ~In(page_number, self.page_frames)
    THEN LET counted == [self EXCEPT !.page_fault_count = @ + 1]
         IN  IF Len(counted.page_frames) >= counted.page_frame_count
             THEN LET page_to_remove == OPTVictim(counted.page_frames, future_references)
                  IN  IF ~In(page_to_remove, counted.page_frames)
                      THEN Outcome(counted, "ValueError")
                      ELSE Outcome([counted EXCEPT !.page_frames =
                                       Append(Remove(@, page_to_remove), page_number)], "None")
             ELSE Outcome([counted EXCEPT !.page_frames = Append(@, page_number)], "None")
    ELSE Outcome([self EXCEPT !.page_frames = Append(Remove(@, page_number), page_number)], "None")

\* OPTReplacementAlgorithm.insert
OPTInsert(self, page_number, future_references) ==
    IF ~In(page_number, self.page_frames)
    THEN LET counted == [self EXCEPT !.page_fault_count = @ + 1]
         IN  IF Len(counted.page_frames) >= counted.page_frame_count
             THEN LET page_to_remove == OPTVictim(counted.page_frames, future_references)
                  IN  \* remove(x) of a value not in the list raises ValueError
                      IF ~In(page_to_remove, counted.page_frames)
                      THEN Outcome(counted, "ValueError")
                      ELSE Outcome([counted EXCEPT !.page_frames =
                                       Append(Remove(@, page_to_remove), page_number)], "None")
             ELSE Outcome([counted EXCEPT !.page_frames = Append(@, page_number)], "None")
    ELSE Outcome(self, "None")

\* ------------------------------------------------------------------------
\* run_algorithm
\* ------------------------------------------------------------------------
\* The future_references argument: None, or a list.
NoneRefs == [isNone |-> TRUE, list |-> <<>>]
ListRefs(lst) == [isNone |-> FALSE, list |-> lst]

\* Python truth value of future_references: None and [] are false
Truthy(future_references) == ~future_references.isNone /\ future_references.list # <<>>

\* The arguments of one call of run_algorithm
RunArgs(algorithm_class, reference_string, page_frame_count, future_references) ==
    [algorithm_class   |-> algorithm_class,
     reference_string  |-> reference_string,
     page_frame_count  |-> page_frame_count,
     future_references |-> future_references]

\* insert takes the lookahead argument in OPT only
TakesLookahead(algorithm_class) == algorithm_class = "OPT"

VARIABLES
    args,        \* run -> arguments of its run_algorithm call
    pc,          \* run -> "call", "loop", "returned" or "raised"
    constructed, \* run -> whether `algorithm' is bound to an instance
    algorithm,   \* run -> attributes of its instance
    i,           \* run -> loop index of enumerate(reference_string)
    exception,   \* run -> the exception that ended the run, "None" if none
    result,      \* run -> <<fault count>> once returned, <<>> before
    history      \* run -> instance attributes seen after __init__ and after
                 \*        every call of insert that ran its body

vars == <<args, pc, constructed, algorithm, i, exception, result, history>>

Runs == DOMAIN args

\* A run that has not been called yet
InitRun(a) ==
    /\ args = a
    /\ pc = [r \in DOMAIN a |-> "call"]
    /\ constructed = [r \in DOMAIN a |-> FALSE]
    /\ algorithm = [r \in DOMAIN a |-> NoInstance]
    /\ i = [r \in DOMAIN a |-> 0]
    /\ exception = [r \in DOMAIN a |-> "None"]
    /\ result = [r \in DOMAIN a |-> <<>>]
    /\ history = [r \in DOMAIN a |-> <<>>]

\* The three policies on one reference string and one frame count, each
\* called with or without future_references.
ThreeRuns(reference_string, page_frame_count, fifoRefs, lruRefs, optRefs) ==
    ("FIFO" :> RunArgs("FIFO", reference_string, page_frame_count, fifoRefs))
    @@ ("LRU" :> RunArgs("LRU", reference_string, page_frame_count, lruRefs))
    @@ ("OPT" :> RunArgs("OPT", reference_string, page_frame_count, optRefs))

\* main and the unit tests call the policies one after the other, in this
\* order, on the same reference string.
CallOrder == <<"FIFO", "LRU", "OPT">>

\* The lists a caller may pass as future_references for a reference string:
\* the string itself, or fewer of its elements
LookaheadLists(reference_string) ==
    {ListRefs(SubSeq(reference_string, 1, n)) : n \in 0 .. Len(reference_string)}

Init ==
    \/ \E reference_string \in ReferenceStrings, page_frame_count \in FrameCounts :
       \E plainRefs \in {NoneRefs, ListRefs(reference_string)},
          optRefs \in {NoneRefs} \cup LookaheadLists(reference_string) :
          InitRun(ThreeRuns(reference_string, page_frame_count, plainRefs, plainRefs, optRefs))
    \/ \E g \in GivenRuns :
          InitRun(ThreeRuns(g[1], g[2], NoneRefs, NoneRefs, ListRefs(g[1])))

\* The run has ended, by return or by exception
Ended(r) == pc[r] \in {"returned", "raised"}

\* Every call made before the call of r has ended
Turn(r) ==
    \A q \in Runs : Index(CallOrder, q) < Index(CallOrder, r) => Ended(q)

\* __init__ without the check of page_frame_count
ConstructUnchecked(r) ==
    /\ pc[r] = "call"
    /\ pc' = [pc EXCEPT ![r] = "loop"]
    /\ constructed' = [constructed EXCEPT ![r] = TRUE]
    /\ algorithm' = [algorithm EXCEPT ![r] = NewInstance(args[r].page_frame_count)]
    /\ history' = [history EXCEPT ![r] = <<NewInstance(args[r].page_frame_count)>>]
    /\ UNCHANGED <<args, i, result, exception>>

\* algorithm = algorithm_class(page_frame_count): ReplacementAlgorithm.__init__
Construct(r) ==
    /\ pc[r] = "call"
    /\ IF args[r].page_frame_count < 0
       THEN /\ pc' = [pc EXCEPT ![r] = "raised"]
            /\ exception' = [exception EXCEPT ![r] = "ValueError"]
            /\ UNCHANGED <<constructed, algorithm, history>>
       ELSE /\ pc' = [pc EXCEPT ![r] = "loop"]
            /\ constructed' = [constructed EXCEPT ![r] = TRUE]
            /\ algorithm' = [algorithm EXCEPT ![r] = NewInstance(args[r].page_frame_count)]
            /\ history' = [history EXCEPT ![r] = <<NewInstance(args[r].page_frame_count)>>]
            /\ UNCHANGED exception
    /\ UNCHANGED <<args, i, result>>

\* The loop has an element left
InLoop(r) == pc[r] = "loop" /\ i[r] < Len(args[r].reference_string)

\* page_number of the current iteration
PageNumber(r) == args[r].reference_string[i[r] + 1]

\* future_references[i+2:]: a slice that skips the next reference
LookaheadSkipsOne(r) == SliceFrom(args[r].future_references.list, i[r] + 2)

\* future_references[i+1:]
Lookahead(r) == SliceFrom(args[r].future_references.list, i[r] + 1)

\* A call of insert whose effect lands on attributes that all instances
\* share
InsertedShared(r, out) ==
    /\ algorithm' = [q \in Runs |-> IF constructed[q] THEN out.self ELSE algorithm[q]]
    /\ history' = [history EXCEPT ![r] = Append(@, out.self)]
    /\ IF out.raised = "None"
       THEN /\ i' = [i EXCEPT ![r] = @ + 1]
            /\ UNCHANGED <<pc, exception>>
       ELSE /\ pc' = [pc EXCEPT ![r] = "raised"]
            /\ exception' = [exception EXCEPT ![r] = out.raised]
            /\ UNCHANGED i
    /\ UNCHANGED <<args, constructed, result>>

\* What a call of insert that ran its body leaves behind
Inserted(r, out) ==
    /\ algorithm' = [algorithm EXCEPT ![r] = out.self]
    /\ history' = [history EXCEPT ![r] = Append(@, out.self)]
    /\ IF out.raised = "None"
       THEN /\ i' = [i EXCEPT ![r] = @ + 1]
            /\ UNCHANGED <<pc, exception>>
       ELSE /\ pc' = [pc EXCEPT ![r] = "raised"]
            /\ exception' = [exception EXCEPT ![r] = out.raised]
            /\ UNCHANGED i
    /\ UNCHANGED <<args, constructed, result>>

\* algorithm.insert(page_number) on a FIFO instance
InsertFIFO(r) ==
    /\ InLoop(r)
    /\ args[r].algorithm_class = "FIFO"
    /\ ~Truthy(args[r].future_references)
    /\ Inserted(r, FIFOInsert(algorithm[r], PageNumber(r)))

\* algorithm.insert(page_number) on an LRU instance
InsertLRU(r) ==
    /\ InLoop(r)
    /\ args[r].algorithm_class = "LRU"
    /\ ~Truthy(args[r].future_references)
    /\ Inserted(r, LRUInsert(algorithm[r], PageNumber(r)))

\* algorithm.insert(page_number, future_references[i+1:]) on an OPT instance
InsertOPT(r) ==
    /\ InLoop(r)
    /\ args[r].algorithm_class = "OPT"
    /\ Truthy(args[r].future_references)
    /\ Inserted(r, OPTInsert(algorithm[r], PageNumber(r), Lookahead(r)))

\* The call of insert whose argument count does not fit the class: Python
\* raises TypeError before the body runs.
InsertArityError(r) ==
    /\ InLoop(r)
    /\ Truthy(args[r].future_references) # TakesLookahead(args[r].algorithm_class)
    /\ pc' = [pc EXCEPT ![r] = "raised"]
    /\ exception' = [exception EXCEPT ![r] = "TypeError"]
    /\ UNCHANGED <<args, constructed, algorithm, i, result, history>>

\* return algorithm.get_page_fault_count()
Return(r) ==
    /\ pc[r] = "loop"
    /\ i[r] = Len(args[r].reference_string)
    /\ pc' = [pc EXCEPT ![r] = "returned"]
    /\ result' = [result EXCEPT ![r] = <<algorithm[r].page_fault_count>>]
    /\ UNCHANGED <<args, constructed, algorithm, i, exception, history>>

Next ==
    \E r \in Runs :
        /\ Turn(r)
        /\ \/ Construct(r)
           \/ InsertFIFO(r)
           \/ InsertLRU(r)
           \/ InsertOPT(r)
           \/ InsertArityError(r)
           \/ Return(r)

Spec == Init /\ [][Next]_vars

\* Two calls of run_algorithm for one policy on one reference string, each
\* with its own instance: with the same capacity, or LRU with capacities k
\* and k + 1.
PairRuns(algorithm_class, reference_string, countA, countB, refs) ==
    ("A" :> RunArgs(algorithm_class, reference_string, countA, refs))
    @@ ("B" :> RunArgs(algorithm_class, reference_string, countB, refs))

InitPair ==
    \/ \E algorithm_class \in {"FIFO", "LRU", "OPT"},
          reference_string \in ReferenceStrings, page_frame_count \in FrameCounts :
       \E refs \in {NoneRefs, ListRefs(reference_string)} :
          InitRun(PairRuns(algorithm_class, reference_string,
                           page_frame_count, page_frame_count, refs))
    \/ \E reference_string \in ReferenceStrings \cup GivenStrings,
          page_frame_count \in 1 .. MaxFrames :
          InitRun(PairRuns("LRU", reference_string,
                           page_frame_count, page_frame_count + 1, NoneRefs))

\* The two runs take their steps in any order
NextPair ==
    \E r \in Runs :
        \/ Construct(r)
        \/ InsertFIFO(r)
        \/ InsertLRU(r)
        \/ InsertOPT(r)
        \/ InsertArityError(r)
        \/ Return(r)

SpecPair == InitPair /\ [][NextPair]_vars

TypeOK ==
    /\ \A r \in Runs : pc[r] \in {"call", "loop", "returned", "raised"}
    /\ \A r \in Runs : Len(result[r]) <= 1

\* ------------------------------------------------------------------------
\* Observations on a run
\* ------------------------------------------------------------------------
\* Number of calls of insert whose body ran
Accesses(r) == Len(history[r]) - 1

\* Access j (1-based) found its page not resident
Missed(r, j) == ~In(args[r].reference_string[j], history[r][j].page_frames)

\* Access j removed a page that was resident before it
Evicted(r, j) ==
    \E p \in Elems(history[r][j].page_frames) : ~In(p, history[r][j + 1].page_frames)

\* The call of insert had the argument list its class takes
ArityFits(r) == Truthy(args[r].future_references) = TakesLookahead(args[r].algorithm_class)

DistinctPages(reference_string) == Cardinality(Elems(reference_string))

\* The run was given its whole reference string as future_references
FullLookahead(r) == args[r].future_references = ListRefs(args[r].reference_string)

\* The lookahead that access j (1-based) of the run was given
LookaheadAt(r, j) == SliceFrom(args[r].future_references.list, j)

\* The Frame Set access j found and the one it left
FramesBefore(r, j) == history[r][j].page_frames
FramesAfter(r, j) == history[r][j + 1].page_frames

\* Access j missed with the Frame Set at capacity
MissedWhenFull(r, j) ==
    Missed(r, j) /\ Len(FramesBefore(r, j)) >= args[r].page_frame_count

\* ------------------------------------------------------------------------
\* Properties
\* ------------------------------------------------------------------------
\* C1: every access adds exactly one to the fault counter when its page was
\* not resident and nothing otherwise, so after every prefix the counter has
\* never decreased and equals the number of accesses that missed.
FaultCounterCountsMisses ==
    \A r \in Runs :
        constructed[r] =>
            /\ \A j \in 1 .. Accesses(r) :
                   history[r][j + 1].page_fault_count =
                       history[r][j].page_fault_count + (IF Missed(r, j) THEN 1 ELSE 0)
            /\ \A j \in 1 .. (Accesses(r) + 1) :
                   history[r][j].page_fault_count =
                       Cardinality({k \in 1 .. (j - 1) : Missed(r, k)})
            /\ algorithm[r] = history[r][Len(history[r])]

\* C1 witness: every policy has seen a hit, a miss and an eviction
WitnessHitsAndMisses ==
    \A r \in Runs :
        /\ constructed[r]
        /\ \E j \in 1 .. Accesses(r) : ~Missed(r, j)
        /\ \E j \in 1 .. Accesses(r) : Missed(r, j) /\ Evicted(r, j)

\* C2: the Frame Set never holds more pages than the capacity given at
\* construction.
FramesWithinCapacity ==
    \A r \in Runs :
        constructed[r] =>
            \A j \in 1 .. Len(history[r]) :
                Len(history[r][j].page_frames) <= args[r].page_frame_count

\* C2 witness: every policy is full and has just replaced a page
WitnessFullAfterEviction ==
    \A r \in Runs :
        /\ constructed[r]
        /\ args[r].page_frame_count >= 1
        /\ Accesses(r) >= 1
        /\ Evicted(r, Accesses(r))
        /\ Len(algorithm[r].page_frames) = args[r].page_frame_count

\* C3: no page occurs twice in the Frame Set.
NoDuplicateFrames ==
    \A r \in Runs :
        \A j \in 1 .. Len(history[r]) :
            Cardinality(Elems(history[r][j].page_frames)) = Len(history[r][j].page_frames)

\* C3 witness: an LRU hit on a page that was not at the tail
WitnessLRUHitMoved ==
    /\ constructed["LRU"]
    /\ \E j \in 1 .. Accesses("LRU") :
          /\ ~Missed("LRU", j)
          /\ history["LRU"][j + 1].page_frames # history["LRU"][j].page_frames

\* C4: when the three runs on one reference string and capacity have
\* returned, OPT having been given the full reference string, the FIFO and
\* the LRU fault count are each at least OPT's.
OPTIsLowerBound ==
    ((\A r \in Runs : pc[r] = "returned") /\ FullLookahead("OPT")) =>
        /\ result["FIFO"][1] >= result["OPT"][1]
        /\ result["LRU"][1] >= result["OPT"][1]

\* C4 witness: all returned, OPT evicted and beat both other policies
WitnessOPTStrictlyBetter ==
    /\ \A r \in Runs : pc[r] = "returned"
    /\ FullLookahead("OPT")
    /\ \E j \in 1 .. Accesses("OPT") : Evicted("OPT", j)
    /\ result["FIFO"][1] > result["OPT"][1]
    /\ result["LRU"][1] > result["OPT"][1]

\* C5: with capacity 0 every access is a fault, the Frame Set is empty
\* after every access and the run returns the length of the reference
\* string.
CapacityZeroFaultsEveryAccess ==
    \A r \in Runs :
        (args[r].page_frame_count = 0 /\ ArityFits(r) /\ Ended(r)) =>
            /\ \A j \in 1 .. Accesses(r) : Missed(r, j)
            /\ \A j \in 1 .. Len(history[r]) : history[r][j].page_frames = <<>>
            /\ result[r] = <<Len(args[r].reference_string)>>

\* C6: for a capacity >= 0 no access raises; the only exception of a run
\* is the one of the constructor for a negative capacity.
OnlyConstructionRaises ==
    \A r \in Runs :
        (pc[r] = "raised" /\ ArityFits(r)) =>
            /\ args[r].page_frame_count < 0
            /\ ~constructed[r]
            /\ exception[r] = "ValueError"

\* Fault counts per policy
Counts(fifo, lru, opt) == ("FIFO" :> fifo) @@ ("LRU" :> lru) @@ ("OPT" :> opt)

\* A run of the given reference string and capacity has returned
ReturnedOn(r, reference_string, page_frame_count) ==
    /\ args[r].reference_string = reference_string
    /\ args[r].page_frame_count = page_frame_count
    /\ pc[r] = "returned"

Scenario3Counts ==
    \A r \in Runs :
        ReturnedOn(r, GivenString1, 3) => result[r] = <<Counts(15, 12, 9)[r]>>

\* C8 witness: the three runs of that scenario have returned
WitnessScenario3 == \A r \in Runs : ReturnedOn(r, GivenString1, 3)

\* C9: with a capacity of at least the number of distinct pages of the
\* reference string no page is ever evicted, an access faults exactly when
\* it is the first access of its page, and the run returns the number of
\* distinct pages.
NoEvictionWhenAllFit ==
    \A r \in Runs :
        (constructed[r] /\ args[r].page_frame_count >= DistinctPages(args[r].reference_string)) =>
            /\ \A j \in 1 .. Accesses(r) :
                   /\ ~Evicted(r, j)
                   /\ Missed(r, j) <=>
                          (\A k \in 1 .. (j - 1) :
                               args[r].reference_string[k] # args[r].reference_string[j])
            /\ exception[r] \in {"None", "TypeError"}
            /\ (pc[r] = "returned" =>
                    result[r] = <<DistinctPages(args[r].reference_string)>>)

\* C9 witness: every policy returned on a string that repeats a page and
\* whose distinct pages exactly fill the frames
WitnessAllFit ==
    \A r \in Runs :
        /\ pc[r] = "returned"
        /\ args[r].page_frame_count = DistinctPages(args[r].reference_string)
        /\ args[r].page_frame_count >= 2
        /\ Len(args[r].reference_string) > args[r].page_frame_count
        /\ \E j \in 1 .. Accesses(r) : ~Missed(r, j)

\* C10: a negative capacity ends the call in the constructor's error: no
\* instance exists, no access was made and no fault count is produced.
NegativeCapacityFails ==
    \A r \in Runs :
        (args[r].page_frame_count < 0 /\ pc[r] # "call") =>
            /\ pc[r] = "raised"
            /\ exception[r] = "ValueError"
            /\ ~constructed[r]
            /\ history[r] = <<>>
            /\ i[r] = 0
            /\ result[r] = <<>>

\* C10 witness: every policy was called with a negative capacity and failed
WitnessNegativeCapacity ==
    \A r \in Runs : args[r].page_frame_count < 0 /\ pc[r] = "raised"

\* C11: whatever the policy and whether or not a lookahead is supplied, a
\* run with a capacity of at least 1 completes and returns its fault count.
RunCompletesForEveryPolicy ==
    \A r \in Runs :
        (args[r].page_frame_count >= 1 /\ Ended(r)) => pc[r] = "returned"

\* The list without its element at position k (1-based)
WithoutAt(lst, k) == SubSeq(lst, 1, k - 1) \o SubSeq(lst, k + 1, Len(lst))

\* Positions of the resident pages that do not occur in the lookahead of
\* access j
UnusedAt(r, j) ==
    {k \in 1 .. Len(FramesBefore(r, j)) : ~In(FramesBefore(r, j)[k], LookaheadAt(r, j))}

\* The least element of a non-empty set of integers
Least(S) == CHOOSE k \in S : \A m \in S : k <= m

\* 0-based position of the first occurrence of page p in the lookahead of
\* access j, written without list.index
NextUseAt(r, j, p) ==
    Least({n \in 1 .. Len(LookaheadAt(r, j)) : LookaheadAt(r, j)[n] = p}) - 1

\* C13: when OPT misses at full capacity and some resident page does not
\* occur in the lookahead, the first such page in Frame Set order is the one
\* evicted, whatever the next uses of the others and however short the
\* lookahead is.
OPTEvictsFirstUnused ==
    \A r \in Runs :
        args[r].algorithm_class = "OPT" =>
            \A j \in 1 .. Accesses(r) :
                (MissedWhenFull(r, j) /\ UnusedAt(r, j) # {}) =>
                    /\ exception[r] = "None" \/ j < Accesses(r)
                    /\ FramesAfter(r, j) =
                           Append(WithoutAt(FramesBefore(r, j), Least(UnusedAt(r, j))),
                                  args[r].reference_string[j])

\* C13 witness: OPT evicted a page without future use that stood behind a
\* page that is used again
WitnessOPTEvictedUnusedBehindUsed ==
    \E r \in Runs :
        /\ args[r].algorithm_class = "OPT"
        /\ \E j \in 1 .. Accesses(r) :
              /\ MissedWhenFull(r, j)
              /\ UnusedAt(r, j) # {}
              /\ 1 \notin UnusedAt(r, j)
              /\ Evicted(r, j)

\* C14: when OPT misses at full capacity (capacity >= 1) and every resident
\* page occurs in the lookahead, the page evicted is the one whose first
\* occurrence in the lookahead is the latest, and all others stay.
OPTEvictsFurthestUse ==
    \A r \in Runs :
        (args[r].algorithm_class = "OPT" /\ args[r].page_frame_count >= 1) =>
            \A j \in 1 .. Accesses(r) :
                (MissedWhenFull(r, j) /\ UnusedAt(r, j) = {}) =>
                    \E k \in 1 .. Len(FramesBefore(r, j)) :
                        /\ \A m \in 1 .. Len(FramesBefore(r, j)) :
                               NextUseAt(r, j, FramesBefore(r, j)[m])
                                   <= NextUseAt(r, j, FramesBefore(r, j)[k])
                        /\ FramesAfter(r, j) =
                               Append(WithoutAt(FramesBefore(r, j), k),
                                      args[r].reference_string[j])

\* C14 witness: OPT chose among several resident pages that are all used
\* again, and the victim was not the first frame
WitnessOPTEvictedFurthest ==
    \E r \in Runs :
        /\ args[r].algorithm_class = "OPT"
        /\ \E j \in 1 .. Accesses(r) :
              /\ MissedWhenFull(r, j)
              /\ Len(FramesBefore(r, j)) >= 2
              /\ UnusedAt(r, j) = {}
              /\ In(FramesBefore(r, j)[1], FramesAfter(r, j))

\* The greatest element of a non-empty set of integers
Greatest(S) == CHOOSE k \in S : \A m \in S : m <= k

\* Position in the reference string of the latest access to page p among
\* the first j accesses (p was accessed)
LastAccess(r, p, j) == Greatest({k \in 1 .. j : args[r].reference_string[k] = p})

\* Position of the access that began the current residency of page p, which
\* is resident after j accesses: its latest miss
LoadedAt(r, p, j) ==
    Greatest({k \in 1 .. j : args[r].reference_string[k] = p /\ Missed(r, k)})

\* C15: in LRU with capacity >= 1 the Frame Set is ordered by the time of
\* the latest access, most recent at the tail, and a miss at full capacity
\* evicts the resident page whose latest access is the earliest.
LRUEvictsLeastRecentlyUsed ==
    \A r \in Runs :
        (args[r].algorithm_class = "LRU" /\ args[r].page_frame_count >= 1) =>
            /\ \A j \in 0 .. Accesses(r) :
                   \A a, b \in 1 .. Len(history[r][j + 1].page_frames) :
                       a < b => LastAccess(r, history[r][j + 1].page_frames[a], j)
                                    < LastAccess(r, history[r][j + 1].page_frames[b], j)
            /\ \A j \in 1 .. Accesses(r) :
                   MissedWhenFull(r, j) =>
                       \E k \in 1 .. Len(FramesBefore(r, j)) :
                           /\ \A m \in 1 .. Len(FramesBefore(r, j)) :
                                  LastAccess(r, FramesBefore(r, j)[k], j - 1)
                                      <= LastAccess(r, FramesBefore(r, j)[m], j - 1)
                           /\ FramesAfter(r, j) =
                                  Append(WithoutAt(FramesBefore(r, j), k),
                                         args[r].reference_string[j])

\* C15 witness: LRU evicted a page that was not the one loaded first,
\* because the page loaded first had been used again
WitnessLRUEvictedAfterHit ==
    \E r \in Runs :
        /\ args[r].algorithm_class = "LRU"
        /\ \E j \in 1 .. Accesses(r) :
              /\ MissedWhenFull(r, j)
              /\ Evicted(r, j)
              /\ \E p \in Elems(FramesAfter(r, j)) :
                     /\ In(p, FramesBefore(r, j))
                     /\ \E q \in Elems(FramesBefore(r, j)) :
                            /\ ~In(q, FramesAfter(r, j))
                            /\ LoadedAt(r, p, j - 1) < LoadedAt(r, q, j - 1)

\* C16: in FIFO with capacity >= 1 the Frame Set is ordered by the time
\* each page was loaded, a miss at full capacity evicts the resident page
\* loaded first, and a hit changes nothing of that order.
FIFOEvictsOldestResident ==
    \A r \in Runs :
        (args[r].algorithm_class = "FIFO" /\ args[r].page_frame_count >= 1) =>
            /\ \A j \in 0 .. Accesses(r) :
                   \A a, b \in 1 .. Len(history[r][j + 1].page_frames) :
                       a < b => LoadedAt(r, history[r][j + 1].page_frames[a], j)
                                    < LoadedAt(r, history[r][j + 1].page_frames[b], j)
            /\ \A j \in 1 .. Accesses(r) :
                   MissedWhenFull(r, j) =>
                       \E k \in 1 .. Len(FramesBefore(r, j)) :
                           /\ \A m \in 1 .. Len(FramesBefore(r, j)) :
                                  LoadedAt(r, FramesBefore(r, j)[k], j - 1)
                                      <= LoadedAt(r, FramesBefore(r, j)[m], j - 1)
                           /\ FramesAfter(r, j) =
                                  Append(WithoutAt(FramesBefore(r, j), k),
                                         args[r].reference_string[j])

\* C16 witness: FIFO evicted the page loaded first although it was the
\* page used most recently
WitnessFIFOEvictedAfterHit ==
    \E r \in Runs :
        /\ args[r].algorithm_class = "FIFO"
        /\ \E j \in 2 .. Accesses(r) :
              /\ MissedWhenFull(r, j)
              /\ Len(FramesBefore(r, j)) >= 2
              /\ ~Missed(r, j - 1)
              /\ ~In(args[r].reference_string[j - 1], FramesAfter(r, j))

\* C17: an access to a resident page leaves the fault counter unchanged;
\* in FIFO and OPT it leaves the Frame Set as it was; in LRU it moves the
\* page to the tail and keeps the other pages in their order.
HitKeepsCounterAndFrames ==
    \A r \in Runs :
        \A j \in 1 .. Accesses(r) :
            ~Missed(r, j) =>
                /\ history[r][j + 1].page_fault_count = history[r][j].page_fault_count
                /\ args[r].algorithm_class \in {"FIFO", "OPT"} =>
                       FramesAfter(r, j) = FramesBefore(r, j)
                /\ args[r].algorithm_class = "LRU" =>
                       \E k \in 1 .. Len(FramesBefore(r, j)) :
                           /\ FramesBefore(r, j)[k] = args[r].reference_string[j]
                           /\ FramesAfter(r, j) =
                                  Append(WithoutAt(FramesBefore(r, j), k),
                                         args[r].reference_string[j])

\* C17 witness: every policy had a hit on the first of several frames
WitnessHitOnFirstFrame ==
    \A r \in Runs :
        \E j \in 1 .. Accesses(r) :
            /\ ~Missed(r, j)
            /\ Len(FramesBefore(r, j)) >= 2
            /\ FramesBefore(r, j)[1] = args[r].reference_string[j]

AccessedPageIsResident ==
    \A r \in Runs :
        args[r].page_frame_count >= 1 =>
            /\ \A j \in 1 .. Accesses(r) :
                   /\ In(args[r].reference_string[j], FramesAfter(r, j))
                   /\ (Missed(r, j) \/ args[r].algorithm_class = "LRU") =>
                          FramesAfter(r, j)[Len(FramesAfter(r, j))] = args[r].reference_string[j]
            /\ \A j \in 2 .. Accesses(r) :
                   args[r].reference_string[j] = args[r].reference_string[j - 1] =>
                       ~(Missed(r, j - 1) /\ Missed(r, j))

\* C19 witness: every policy missed a page and was given it again at once,
\* and LRU was hit on a frame that was not the last
WitnessRepeatedAccess ==
    /\ \A r \in Runs :
          /\ args[r].page_frame_count >= 1
          /\ \E j \in 2 .. Accesses(r) :
                /\ args[r].reference_string[j] = args[r].reference_string[j - 1]
                /\ Missed(r, j - 1)
                /\ ~Missed(r, j)
    /\ \E r \in Runs :
          /\ args[r].algorithm_class = "LRU"
          /\ \E j \in 1 .. Accesses(r) :
                /\ ~Missed(r, j)
                /\ FramesBefore(r, j)[Len(FramesBefore(r, j))] # args[r].reference_string[j]

\* Number of instance states both runs of a pair have logged
Common == IF Len(history["A"]) <= Len(history["B"])
          THEN Len(history["A"]) ELSE Len(history["B"])

LRUInclusion ==
    (/\ args["A"].algorithm_class = "LRU"
     /\ args["A"].page_frame_count >= 1
     /\ args["B"] = [args["A"] EXCEPT !.page_frame_count = @ + 1]) =>
        /\ \A j \in 1 .. Common :
               /\ Elems(history["A"][j].page_frames) \subseteq Elems(history["B"][j].page_frames)
               /\ history["B"][j].page_fault_count <= history["A"][j].page_fault_count
        /\ (pc["A"] = "returned" /\ pc["B"] = "returned") => result["B"][1] <= result["A"][1]

\* C20 witness: both runs returned, the larger one evicted too and faulted
\* less
WitnessLRUInclusion ==
    /\ args["A"].algorithm_class = "LRU"
    /\ args["A"].page_frame_count >= 2
    /\ args["B"] = [args["A"] EXCEPT !.page_frame_count = @ + 1]
    /\ pc["A"] = "returned" /\ pc["B"] = "returned"
    /\ \E j \in 1 .. Accesses("B") : Evicted("B", j)
    /\ result["B"][1] < result["A"][1]

====
